---- MODULE Spec2Model ----
(***************************************************************************)
(* Model of local_assistant_probe/probe.py: the best-effort discovery of a *)
(* working OpenAI-compatible endpoint (_best_effort_probe), the pure       *)
(* helpers it uses (_try_json, _extract_model_ids, _pick_model, ...) and   *)
(* main().                                                                 *)
(*                                                                         *)
(* Python str values that the code inspects character by character (model  *)
(* ids, the hint, the api key) are sequences of one-character strings.     *)
(* URLs, notes and output lines are sequences of tokens.                   *)
(* Optional[T] is a sequence of length at most one: <<>> is None.          *)
(***************************************************************************)
EXTENDS Integers, Sequences, FiniteSets, TLC

VARIABLES
    pc,        \* position of the run
    hint,      \* args.model_hint
    debug,     \* args.debug
    base_idx,  \* index of the loop variable `base` in _candidate_api_bases
    last_resp, \* the HttpResponse _http_request returned last
    payload,   \* the decoded /models payload of the current candidate
    ids,       \* Optional[List[str]] returned by _probe_models
    model,     \* Optional[str] picked by _pick_model
    notes,     \* List[str] of _best_effort_probe
    attempts,  \* history: every HTTP request issued, with its outcome
    res,       \* Optional[ProbeResult] returned by _best_effort_probe
    ret,       \* Optional[int]: the value main returned
    exc,       \* Optional[str]: the exception that left main uncaught
    stdout,    \* what main wrote to sys.stdout
    stderr     \* what main wrote to sys.stderr

vars == <<pc, hint, debug, base_idx, last_resp, payload, ids, model, notes, attempts,
          res, ret, exc, stdout, stderr>>

(***************************************************************************)
(* Bounds of the pure-function specifications.                             *)
(***************************************************************************)
MaxLen == 2
MaxIds == 2
MaxItems == 2

None == <<>>
Some(x) == <<x>>

(***************************************************************************)
(* Characters and str.lower().                                             *)
(***************************************************************************)
Chars == {"a", "A", "b"}

LowerChar(c) ==
    CASE c = "A" -> "a"
      [] c = "N" -> "n"
      [] OTHER -> c

lower(s) == [i \in 1..Len(s) |-> LowerChar(s[i])]

\* Python's `h in s` on str
Contains(s, h) ==
    \E i \in 0..(Len(s) - Len(h)) : SubSeq(s, i + 1, i + Len(h)) = h

RECURSIVE SeqsUpTo(_, _)
SeqsUpTo(S, n) ==
    IF n = 0 THEN {<<>>}
    ELSE LET shorter == SeqsUpTo(S, n - 1)
         IN  shorter \cup {Append(s, x) : s \in shorter, x \in S}

(***************************************************************************)
(* JSON values as json.loads returns them.  A scalar is a record [t, s];   *)
(* an element of a model list is an object with optional id and name keys  *)
(* or something that is not an object; a payload is None (JSON null),      *)
(* a scalar, a list or an object with optional `data` and `models` keys,   *)
(* each holding a list or something else.                                  *)
(***************************************************************************)
JNull == [t |-> "null", s |-> <<>>]
JStr(s) == [t |-> "str", s |-> s]
JNum(d) == [t |-> "num", s |-> <<d>>]

\* Python truthiness of a scalar, as `or` tests it
Truthy(v) ==
    CASE v.t = "null" -> FALSE
      [] v.t = "str" -> v.s # <<>>
      [] OTHER -> v.s # <<"0">>

\* str(v)
str(v) ==
    IF v.t = "null" THEN <<"N", "o", "n", "e">> ELSE v.s

Obj(id, name) == [dict |-> TRUE, id |-> id, name |-> name]
NotObj == [dict |-> FALSE, id |-> None, name |-> None]

\* x.get(k): the value under the key, None when the key is absent
Get(opt) == IF opt = None THEN JNull ELSE opt[1]

ListField(items) == [list |-> TRUE, items |-> items]
OtherField == [list |-> FALSE, items |-> <<>>]

PyNone == [t |-> "null", items |-> <<>>, data |-> None, models |-> None]
PyScalar == [t |-> "scalar", items |-> <<>>, data |-> None, models |-> None]
PyList(items) == [t |-> "list", items |-> items, data |-> None, models |-> None]
PyDict(data, models) == [t |-> "obj", items |-> <<>>, data |-> data, models |-> models]

(***************************************************************************)
(* HttpResponse and the outcome of _http_request.  An HTTP response of any *)
(* status is returned (HTTPError is caught); a connection-level failure    *)
(* (URLError, timeout) is not caught and leaves _http_request as an        *)
(* exception.  Headers are never read by the code and are left out.        *)
(***************************************************************************)
EmptyBody == [kind |-> "empty", val |-> PyNone]
MalformedBody == [kind |-> "malformed", val |-> PyNone]
JsonBody(v) == [kind |-> "json", val |-> v]

HttpResponse(status, body) == [status |-> status, body |-> body]

Returned(resp) == [raised |-> FALSE, resp |-> resp]
Raised == [raised |-> TRUE, resp |-> HttpResponse(0, EmptyBody)]

\* Optional[Any]: None is PyNone (which json.loads also returns for `null`)
_try_json(resp) ==
    IF resp.body.kind = "empty" THEN PyNone
    ELSE IF resp.body.kind = "json" THEN resp.body.val
    ELSE PyNone

\* x.get("id") or x.get("name")
IdOrName(x) ==
    IF Truthy(Get(x.id)) THEN Get(x.id) ELSE Get(x.name)

\* [str(x.get("id")) for x in items if isinstance(x, dict) and "id" in x]
RECURSIVE IdsOf(_)
IdsOf(items) ==
    IF items = <<>> THEN <<>>
    ELSE LET x == Head(items)
         IN  (IF x.dict /\ x.id # None THEN <<str(Get(x.id))>> ELSE <<>>)
                 \o IdsOf(Tail(items))

\* [str(x.get("id") or x.get("name")) for x in items if isinstance(x, dict)]
RECURSIVE IdsOrNamesOf(_)
IdsOrNamesOf(items) ==
    IF items = <<>> THEN <<>>
    ELSE LET x == Head(items)
         IN  (IF x.dict THEN <<str(IdOrName(x))>> ELSE <<>>)
                 \o IdsOrNamesOf(Tail(items))

_extract_model_ids(p) ==
    IF p.t = "obj" /\ p.data # None /\ p.data[1].list
        THEN IdsOf(p.data[1].items)
    ELSE IF p.t = "obj" /\ p.models # None /\ p.models[1].list
        THEN IdsOrNamesOf(p.models[1].items)
    ELSE IF p.t = "list"
        THEN IdsOrNamesOf(p.items)
    ELSE <<>>

\* faulty variant of _pick_model: the hint is compared case-sensitively
_pick_model_case_sensitive(model_ids, h) ==
    IF model_ids = <<>> THEN None
    ELSE IF h # <<>> /\ \E i \in 1..Len(model_ids) : Contains(model_ids[i], h)
        THEN LET i == CHOOSE i \in 1..Len(model_ids) :
                          /\ Contains(model_ids[i], h)
                          /\ \A j \in 1..(i - 1) : ~Contains(model_ids[j], h)
             IN  Some(model_ids[i])
    ELSE Some(model_ids[1])

\* the for loop of _pick_model, from position i on
RECURSIVE FirstWithHint(_, _, _)
FirstWithHint(model_ids, h, i) ==
    IF i > Len(model_ids) THEN None
    ELSE IF Contains(lower(model_ids[i]), lower(h)) THEN Some(model_ids[i])
    ELSE FirstWithHint(model_ids, h, i + 1)

_pick_model(model_ids, h) ==
    IF model_ids = <<>> THEN None
    ELSE IF h # <<>> /\ FirstWithHint(model_ids, h, 1) # None
        THEN FirstWithHint(model_ids, h, 1)
    ELSE Some(model_ids[1])

(***************************************************************************)
(* URLs are sequences of tokens; "/" is a token of its own.                *)
(***************************************************************************)
Root == <<"http://localhost:3000">>

_join(base, path) ==
    LET base2 == IF base # <<>> /\ base[Len(base)] = "/"
                     THEN SubSeq(base, 1, Len(base) - 1) ELSE base
        path2 == IF path # <<>> /\ path[1] = "/" THEN path ELSE <<"/">> \o path
    IN  base2 \o path2

\* faulty variant of _candidate_api_bases: /v1 is tried before /api
_candidate_api_bases_v1_first ==
    << Root \o <<"/", "v1">>,
       Root \o <<"/", "api">>,
       Root \o <<"/", "api", "/", "openai", "/", "v1">>,
       Root \o <<"/", "api", "/", "openai", "/", "v1">>,
       Root >>

\* faulty variant of _candidate_api_bases: /api is listed twice instead of /v1
_candidate_api_bases_api_twice ==
    << Root \o <<"/", "api">>,
       Root \o <<"/", "api">>,
       Root \o <<"/", "api", "/", "openai", "/", "v1">>,
       Root \o <<"/", "api", "/", "openai", "/", "v1">>,
       Root >>

_candidate_api_bases ==
    << Root \o <<"/", "api">>,
       Root \o <<"/", "v1">>,
       Root \o <<"/", "api", "/", "openai", "/", "v1">>,
       Root \o <<"/", "api", "/", "openai", "/", "v1">>,
       Root >>

\* f"{url} -> {resp.status}"
Note(url, status) == url \o <<" -> ", ToString(status)>>

\* faulty variant of _probe_models: the ids are taken whatever the status
_probe_models_any_status(api_base, resp) ==
    [ids |-> Some(_extract_model_ids(_try_json(resp))),
     note |-> Note(_join(api_base, <<"/", "models">>), resp.status)]

\* _probe_models once _http_request has returned resp
_probe_models(api_base, resp) ==
    LET url == _join(api_base, <<"/", "models">>)
        p == _try_json(resp)
    IN  [ids |-> IF resp.status = 200 THEN Some(_extract_model_ids(p)) ELSE None,
         note |-> Note(url, resp.status)]

\* _probe_chat once _http_request has returned resp
_probe_chat(api_base, resp) ==
    LET url == _join(api_base, <<"/", "chat", "/", "completions">>)
    IN  [ok |-> resp.status = 200 /\ _try_json(resp) # PyNone,
         note |-> Note(url, resp.status)]

\* _probe_legacy_completions once _http_request has returned resp
_probe_legacy_completions(api_base, resp) ==
    LET url == _join(api_base, <<"/", "completions">>)
    IN  [ok |-> resp.status = 200 /\ _try_json(resp) # PyNone,
         note |-> Note(url, resp.status)]

ProbeResult(api_base, m, legacy) ==
    [api_base |-> api_base, model |-> m, use_legacy_completions_endpoint |-> legacy]

\* faulty variant of Falsy: `model is None`
Falsy_none_only(m) == m = None

\* `not model` for an Optional[str]: None and "" are falsy
Falsy(m) == m = None \/ m[1] = <<>>

(***************************************************************************)
(* The output renderer.  A document is a sequence of lines, a line a       *)
(* sequence of tokens; "\n".join is left to the reader.                    *)
(***************************************************************************)
DEFAULT_CONTEXT == <<"code", "docs", "diff", "terminal", "problems", "folder", "codebase">>

\* s.replace(old, new) for a one-character old
RECURSIVE Replace(_, _, _)
Replace(s, old, new) ==
    IF s = <<>> THEN <<>>
    ELSE (IF Head(s) = old THEN new ELSE <<Head(s)>>) \o Replace(Tail(s), old, new)

_yaml_quote(s) ==
    LET s2 == Replace(Replace(s, "\\", <<"\\", "\\">>), "\"", <<"\\", "\"">>)
    IN  <<"\"">> \o s2 \o <<"\"">>

_render_yaml(result, api_key, title, model_name) ==
    << <<"name: ", title>>,
       <<"version: 1.0.0">>,
       <<"schema: v1">>,
       <<"models:">>,
       <<"  - name: ", model_name>>,
       <<"    provider: openai">>,
       <<"    model: ">> \o result.model,
       <<"    env:">>,
       <<"      useLegacyCompletionsEndpoint: ",
         IF result.use_legacy_completions_endpoint THEN "true" ELSE "false">>,
       <<"    apiBase: ">> \o result.api_base,
       <<"    apiKey: ">> \o _yaml_quote(api_key),
       <<"    roles:">>,
       <<"      - chat">>,
       <<"      - edit">>,
       <<"context:">> >>
    \o [i \in 1..Len(DEFAULT_CONTEXT) |-> <<"  - provider: ", DEFAULT_CONTEXT[i]>>]
    \o << <<"">> >>

(***************************************************************************)
(* The inputs of a run: the parsed arguments and what the server answers.  *)
(***************************************************************************)
ApiKey == <<"s", "k", "\"">>
Title == "Local Assistant"
ModelName == "LLama3"
Hints == {<<"A">>, <<"a", "b">>}

\* {"data": [{"id": "b"}, {"id": "Ab"}]}
DataPayload ==
    PyDict(Some(ListField(<<Obj(Some(JStr(<<"b">>)), None),
                            Obj(Some(JStr(<<"A", "b">>)), None)>>)), None)
\* {"models": [{"name": "Ab"}]}
ModelsPayload ==
    PyDict(None, Some(ListField(<<Obj(None, Some(JStr(<<"A", "b">>)))>>)))
\* {"data": [{"id": ""}]}
EmptyIdPayload ==
    PyDict(Some(ListField(<<Obj(Some(JStr(<<>>)), None)>>)), None)
\* {"error": "not_found"}
ErrorPayload == PyDict(None, None)

ModelsResponses ==
    { HttpResponse(404, JsonBody(DataPayload)),
      HttpResponse(200, EmptyBody),
      HttpResponse(200, JsonBody(EmptyIdPayload)),
      HttpResponse(200, JsonBody(DataPayload)),
      HttpResponse(200, JsonBody(ModelsPayload)) }

CompletionResponses ==
    { HttpResponse(404, JsonBody(ErrorPayload)),
      HttpResponse(200, EmptyBody),
      HttpResponse(200, MalformedBody),
      HttpResponse(200, JsonBody(PyNone)),
      HttpResponse(200, JsonBody(ErrorPayload)) }

\* what _http_request can do with a request
Outcomes(responses) == {Raised} \cup {Returned(r) : r \in responses}

\* one entry of the history of HTTP requests: the request (method, url, the
\* candidate it was made for, the model it named), whether a response came
\* back and its status, for GET /models whether it gave no ids and the model
\* taken from it, and the verdict of the probe (a model was selected, ok, ok2)
Attempt(method, url, idx, o, noids, m, ok) ==
    [method |-> method, url |-> url, idx |-> idx, conn |-> ~o.raised,
     status |-> o.resp.status, noids |-> noids, model |-> m, ok |-> ok]

(***************************************************************************)
(* The run: main() calls _best_effort_probe, one action per HTTP step of   *)
(* its loop.  pc is "models", "chat" or "legacy" inside the loop,          *)
(* "returned" when _best_effort_probe has returned to main, "exit" when    *)
(* main has returned and "crashed" when an exception has left main.        *)
(***************************************************************************)
Init ==
    /\ pc = "models"
    /\ hint \in Hints
    /\ debug = FALSE
    /\ base_idx = 1
    /\ last_resp = HttpResponse(0, EmptyBody)
    /\ payload = PyNone
    /\ ids = None
    /\ model = None
    /\ notes = <<>>
    /\ attempts = <<>>
    /\ res = None
    /\ ret = None
    /\ exc = None
    /\ stdout = <<>>
    /\ stderr = <<>>

\* model = _pick_model(ids or [], model_hint) if ids is not None else None
SelectModel(i, h) == IF i # None THEN _pick_model(i[1], h) ELSE None

\* the loop moves to the next candidate, or ends: return None, notes
Continue ==
    /\ base_idx' = base_idx + 1
    /\ pc' = IF base_idx < Len(_candidate_api_bases) THEN "models" ELSE "returned"

\* a connection-level failure: the exception leaves _http_request, the probe,
\* _best_effort_probe and main, none of which catches it
Crash(a) ==
    /\ attempts' = Append(attempts, a)
    /\ pc' = "crashed"
    /\ exc' = Some("URLError")
    /\ UNCHANGED <<hint, debug, base_idx, last_resp, payload, ids, model, notes, res,
                   ret, stdout, stderr>>

\* return ProbeResult(base, model, False), notes
ChatResult(base, m) == ProbeResult(base, m, FALSE)

\* return ProbeResult(base, model, True), notes
LegacyResult(base, m) == ProbeResult(base, m, TRUE)

ProbeModels ==
    /\ pc = "models"
    /\ \E o \in Outcomes(ModelsResponses) :
         LET base == _candidate_api_bases[base_idx]
             url == _join(base, <<"/", "models">>)
         IN  IF o.raised
             THEN Crash(Attempt("GET", url, base_idx, o, TRUE, None, FALSE))
             ELSE LET r == _probe_models(base, o.resp)
                      m == SelectModel(r.ids, hint)
                  IN  /\ last_resp' = o.resp
                      /\ payload' = _try_json(o.resp)
                      /\ ids' = r.ids
                      /\ model' = m
                      /\ notes' = Append(notes, r.note)
                      /\ attempts' = Append(attempts,
                            Attempt("GET", url, base_idx, o,
                                    r.ids = None \/ r.ids = Some(<<>>), m, ~Falsy(m)))
                      /\ IF Falsy(m)
                         THEN Continue
                         ELSE pc' = "chat" /\ base_idx' = base_idx
                      /\ UNCHANGED <<hint, debug, res, ret, exc, stdout, stderr>>

ProbeChat ==
    /\ pc = "chat"
    /\ \E o \in Outcomes(CompletionResponses) :
         LET base == _candidate_api_bases[base_idx]
             url == _join(base, <<"/", "chat", "/", "completions">>)
         IN  IF o.raised
             THEN Crash(Attempt("POST", url, base_idx, o, TRUE, model, FALSE))
             ELSE LET r == _probe_chat(base, o.resp)
                  IN  /\ last_resp' = o.resp
                      /\ notes' = Append(notes, r.note)
                      /\ attempts' = Append(attempts,
                            Attempt("POST", url, base_idx, o, TRUE, model, r.ok))
                      /\ IF r.ok
                         THEN res' = Some(ChatResult(base, model[1])) /\ pc' = "returned"
                         ELSE res' = res /\ pc' = "legacy"
                      /\ UNCHANGED <<hint, debug, base_idx, payload, ids, model,
                                     ret, exc, stdout, stderr>>

ProbeLegacy ==
    /\ pc = "legacy"
    /\ \E o \in Outcomes(CompletionResponses) :
         LET base == _candidate_api_bases[base_idx]
             url == _join(base, <<"/", "completions">>)
         IN  IF o.raised
             THEN Crash(Attempt("POST", url, base_idx, o, TRUE, model, FALSE))
             ELSE LET r == _probe_legacy_completions(base, o.resp)
                  IN  /\ last_resp' = o.resp
                      /\ notes' = Append(notes, r.note)
                      /\ attempts' = Append(attempts,
                            Attempt("POST", url, base_idx, o, TRUE, model, r.ok))
                      /\ IF r.ok
                         THEN /\ res' = Some(LegacyResult(base, model[1]))
                              /\ pc' = "returned"
                              /\ base_idx' = base_idx
                         ELSE res' = res /\ Continue
                      /\ UNCHANGED <<hint, debug, payload, ids, model,
                                     ret, exc, stdout, stderr>>

\* main, from the return of _best_effort_probe on; args.debug, which nothing
\* reads before, is drawn here
Main ==
    /\ pc = "returned"
    /\ debug' \in BOOLEAN
    /\ stderr' =
          (IF debug' THEN [i \in 1..Len(notes) |-> <<"# ">> \o notes[i]] ELSE <<>>)
          \o (IF res = None
              THEN << <<"ERROR: Could not find a working OpenAI-compatible endpoint.">> >>
                   \o (IF ~debug'
                       THEN << <<"Tip: rerun with --debug to see attempted endpoints.">> >>
                       ELSE <<>>)
              ELSE <<>>)
    /\ IF res = None
       THEN ret' = Some(2) /\ stdout' = stdout
       ELSE /\ stdout' = stdout \o _render_yaml(res[1], ApiKey, Title, ModelName)
            /\ ret' = Some(0)
    /\ pc' = "exit"
    /\ UNCHANGED <<hint, base_idx, last_resp, payload, ids, model, notes, attempts,
                   res, exc>>

Next ==
    \/ ProbeModels
    \/ ProbeChat
    \/ ProbeLegacy
    \/ Main

Spec == Init /\ [][Next]_vars

(***************************************************************************)
(* Vocabulary of the properties.                                           *)
(***************************************************************************)
Bases == _candidate_api_bases
ModelsUrl(i) == _join(Bases[i], <<"/", "models">>)
ChatUrl(i) == _join(Bases[i], <<"/", "chat", "/", "completions">>)
LegacyUrl(i) == _join(Bases[i], <<"/", "completions">>)

IsModels(a) == a.method = "GET" /\ a.url = ModelsUrl(a.idx)
IsChat(a) == a.method = "POST" /\ a.url = ChatUrl(a.idx)
IsLegacy(a) == a.method = "POST" /\ a.url = LegacyUrl(a.idx)

NAttempts == Len(attempts)
LastAttempt == attempts[NAttempts]

\* the body is not empty and json.loads accepts it
DecodableBody(r) == r.body.kind = "json"

\* the payload is an object whose `data` is a list
DataShaped(p) == p.t = "obj" /\ p.data # None /\ p.data[1].list

\* the entries of a data-shaped payload whose id contains the hint, case-insensitively
MatchingEntries(p, h) ==
    {k \in 1..Len(p.data[1].items) :
        LET x == p.data[1].items[k]
        IN  x.dict /\ x.id # None /\ x.id[1].t = "str"
            /\ Contains(lower(x.id[1].s), lower(h))}

Min(S) == CHOOSE m \in S : \A n \in S : m <= n

\* main has returned, or an exception has ended it
MainEnded == pc \in {"exit", "crashed"}

(***************************************************************************)
(* C1.  When GET {base}/models answered 200 with a data-shaped payload     *)
(* holding an entry that matches the hint and POST {base}/chat/completions *)
(* then answered 200 with a decodable JSON body, the run returns a         *)
(* ProbeResult for that base with the matched identifier and               *)
(* use_legacy_completions_endpoint = false.                                *)
(***************************************************************************)
C1_ChatAnswered ==
    /\ NAttempts >= 2
    /\ IsChat(LastAttempt) /\ LastAttempt.conn
    /\ last_resp.status = 200 /\ DecodableBody(last_resp)
    /\ attempts[NAttempts - 1].status = 200
    /\ DataShaped(payload) /\ MatchingEntries(payload, hint) # {}

C1_ChatSuccessReturnsResult ==
    C1_ChatAnswered =>
        LET x == payload.data[1].items[Min(MatchingEntries(payload, hint))]
        IN  res = Some(ProbeResult(Bases[LastAttempt.idx], x.id[1].s, FALSE))

(***************************************************************************)
(* C2.  When POST {base}/chat/completions answered a non-200 status and    *)
(* POST {base}/completions then answered 200 with a decodable JSON body,   *)
(* the run returns a ProbeResult for that base with                        *)
(* use_legacy_completions_endpoint = true; and a returned result has the   *)
(* flag true only when the chat probe at that base was made and failed.    *)
(***************************************************************************)
C2_LegacyAnswered ==
    /\ NAttempts >= 2
    /\ IsLegacy(LastAttempt) /\ LastAttempt.conn
    /\ last_resp.status = 200 /\ DecodableBody(last_resp)
    /\ attempts[NAttempts - 1].status # 200

C2_LegacyFallback ==
    /\ C2_LegacyAnswered =>
          res = Some(ProbeResult(Bases[LastAttempt.idx], model[1], TRUE))
    /\ (res # None /\ res[1].use_legacy_completions_endpoint) =>
          \E k \in 1..NAttempts :
              /\ IsChat(attempts[k]) /\ attempts[k].conn
              /\ Bases[attempts[k].idx] = res[1].api_base
              /\ k < NAttempts /\ IsLegacy(attempts[k + 1])

(***************************************************************************)
(* C3.  A connectivity failure of an HTTP attempt is never fatal: no       *)
(* exception ends the run, and _best_effort_probe goes on to return.       *)
(***************************************************************************)
C3_ConnectivityNeverFatal ==
    \A k \in 1..NAttempts : ~attempts[k].conn => (exc = None /\ pc # "crashed")

(***************************************************************************)
(* C4.  When main has ended, it returned 0 exactly when discovery produced *)
(* a ProbeResult, and then the rendered configuration is on standard       *)
(* output; when no candidate succeeded it returned 2 and standard output   *)
(* is empty.                                                               *)
(***************************************************************************)
C4_ExitCodes ==
    MainEnded =>
        /\ (ret = Some(0)) <=> (res # None)
        /\ res # None => stdout = _render_yaml(res[1], ApiKey, Title, ModelName)
        /\ res = None => (ret = Some(2) /\ stdout = <<>>)

(***************************************************************************)
(* C5.  When the GET /models call of every candidate answered a non-200    *)
(* status or gave no model ids, _best_effort_probe has returned nothing,   *)
(* no completion request was issued, and the notes are as many as the      *)
(* /models attempts: one per candidate, five.                              *)
(***************************************************************************)
UselessModels(a) == IsModels(a) /\ a.conn /\ (a.status # 200 \/ a.noids)

C5_AllModelsUseless ==
    \A i \in 1..Len(Bases) :
        \E k \in 1..NAttempts : attempts[k].idx = i /\ UselessModels(attempts[k])

C5_NoModelsNoCompletions ==
    C5_AllModelsUseless =>
        /\ pc \in {"returned", "exit"}
        /\ res = None
        /\ \A k \in 1..NAttempts : attempts[k].method = "GET"
        /\ Len(notes) = Cardinality({k \in 1..NAttempts : IsModels(attempts[k])})
        /\ Len(notes) = 5

C5_Witness ==
    /\ C5_AllModelsUseless
    /\ \E k \in 1..NAttempts : attempts[k].status # 200
    /\ \E k \in 1..NAttempts : attempts[k].status = 200

(***************************************************************************)
(* C6.  At every point of a run the notes hold exactly one entry per HTTP  *)
(* attempt made so far, in the order the attempts were issued.             *)
(***************************************************************************)
C6_NotesMirrorAttempts ==
    /\ Len(notes) = NAttempts
    /\ \A k \in 1..NAttempts :
          k <= Len(notes) => notes[k] = Note(attempts[k].url, attempts[k].status)

(***************************************************************************)
(* C9.  First success wins, in candidate order: requests go to the         *)
(* candidates /api, /v1, /api/openai/v1, /api/openai/v1, root in that      *)
(* order; a returned result names the candidate of the completion probe    *)
(* that succeeded, every earlier candidate having been tried and having    *)
(* failed; and a successful completion probe is the last request of the    *)
(* run.                                                                    *)
(***************************************************************************)
FixedBases ==
    << <<"http://localhost:3000", "/", "api">>,
       <<"http://localhost:3000", "/", "v1">>,
       <<"http://localhost:3000", "/", "api", "/", "openai", "/", "v1">>,
       <<"http://localhost:3000", "/", "api", "/", "openai", "/", "v1">>,
       <<"http://localhost:3000">> >>

\* the chain of candidate j was run and did not succeed
ChainFailed(j) ==
    /\ \E k \in 1..NAttempts : attempts[k].idx = j /\ attempts[k].method = "GET"
    /\ \A k \in 1..NAttempts : attempts[k].idx = j => attempts[k].conn
    /\ \A k \in 1..NAttempts :
          (attempts[k].idx = j /\ attempts[k].method = "POST") => ~attempts[k].ok
    /\ \A k \in 1..NAttempts :
          (attempts[k].idx = j /\ attempts[k].method = "GET" /\ attempts[k].ok) =>
              /\ k + 2 <= NAttempts
              /\ attempts[k + 1].idx = j /\ attempts[k + 1].method = "POST"
              /\ attempts[k + 2].idx = j /\ attempts[k + 2].method = "POST"

C9_FirstSuccessWins ==
    /\ \A k \in 1..NAttempts :
          /\ attempts[k].method = "GET" =>
                attempts[k].url = FixedBases[attempts[k].idx] \o <<"/", "models">>
          /\ k < NAttempts => attempts[k].idx <= attempts[k + 1].idx
          /\ (attempts[k].method = "POST" /\ attempts[k].ok) =>
                (k = NAttempts /\ res # None)
    /\ res # None =>
          /\ LastAttempt.method = "POST" /\ LastAttempt.ok
          /\ res[1].api_base = FixedBases[LastAttempt.idx]
          /\ \A j \in 1..(LastAttempt.idx - 1) : ChainFailed(j)

C9_Witness ==
    /\ pc = "exit"
    /\ res # None
    /\ LastAttempt.idx = 4
    /\ \E k \in 1..NAttempts : attempts[k].idx = 3 /\ attempts[k].method = "POST"

(***************************************************************************)
(* C10.  The probe steps of a candidate are ordered and gated: a chat      *)
(* request follows the GET /models of the same candidate, which answered   *)
(* 200 and from which the model it names was selected; a legacy request    *)
(* follows the failed chat request of the same candidate and model; a      *)
(* candidate with no selected model receives no completion request.        *)
(***************************************************************************)
C10_Gating ==
    \A k \in 1..NAttempts :
        LET a == attempts[k]
        IN  /\ a.method = "POST" => (IsChat(a) \/ IsLegacy(a))
            /\ IsChat(a) =>
                  /\ k > 1
                  /\ LET g == attempts[k - 1]
                     IN  /\ IsModels(g) /\ g.idx = a.idx
                         /\ g.conn /\ g.status = 200
                         /\ g.model # None /\ g.model[1] # <<>>
                         /\ a.model = g.model
            /\ IsLegacy(a) =>
                  /\ k > 1
                  /\ LET c == attempts[k - 1]
                     IN  /\ IsChat(c) /\ c.idx = a.idx /\ c.model = a.model
                         /\ c.conn /\ ~c.ok
            /\ (IsModels(a) /\ (a.model = None \/ a.model[1] = <<>>)) =>
                  \A l \in 1..NAttempts :
                      attempts[l].idx = a.idx => attempts[l].method = "GET"

C10_Witness ==
    /\ \E k \in 1..NAttempts : IsLegacy(attempts[k]) /\ attempts[k].idx = 2
    /\ \E k \in 1..NAttempts :
          /\ IsModels(attempts[k]) /\ attempts[k].idx = 1
          /\ attempts[k].status = 200 /\ ~attempts[k].noids
          /\ attempts[k].model = Some(<<>>)

(***************************************************************************)
(* _pick_model on its own: the inputs are drawn from all lists of at most  *)
(* MaxIds ids of at most MaxLen characters and from hints of every kind    *)
(* (empty, one character of either case, two characters); the one step     *)
(* applies the function.                                                   *)
(***************************************************************************)
Strings == SeqsUpTo(Chars, MaxLen)
HintInputs ==
    {<<>>, <<"a">>, <<"A">>, <<"b">>, <<"a", "b">>, <<"A", "b">>, <<"b", "A">>}

InitPick ==
    /\ pc = "pick"
    /\ hint \in HintInputs
    /\ ids \in {Some(l) : l \in SeqsUpTo(Strings, MaxIds)}
    /\ model = None
    /\ debug = FALSE
    /\ base_idx = 1
    /\ last_resp = HttpResponse(0, EmptyBody)
    /\ payload = PyNone
    /\ notes = <<>>
    /\ attempts = <<>>
    /\ res = None
    /\ ret = None
    /\ exc = None
    /\ stdout = <<>>
    /\ stderr = <<>>

PickStep ==
    /\ pc = "pick"
    /\ model' = _pick_model(ids[1], hint)
    /\ pc' = "picked"
    /\ UNCHANGED <<hint, debug, base_idx, last_resp, payload, ids, notes, attempts,
                   res, ret, exc, stdout, stderr>>

NextPick == PickStep

SpecPick == InitPick /\ [][NextPick]_vars

\* the positions of the ids that contain the hint, case-insensitively
HintPositions ==
    {i \in 1..Len(ids[1]) : Contains(lower(ids[1][i]), lower(hint))}

(***************************************************************************)
(* C7.  _pick_model(ids, hint) returns nothing for empty ids; for a        *)
(* non-empty hint the first id, in input order, whose lowercase form       *)
(* contains the lowercase hint; the first id when no id matches or the     *)
(* hint is empty.  What it returns is an element of ids.                   *)
(***************************************************************************)
C7_PickModel ==
    pc = "picked" =>
        /\ ids[1] = <<>> => model = None
        /\ (ids[1] # <<>> /\ hint # <<>> /\ HintPositions # {}) =>
              model = Some(ids[1][Min(HintPositions)])
        /\ (ids[1] # <<>> /\ (hint = <<>> \/ HintPositions = {})) =>
              model = Some(ids[1][1])
        /\ model # None => \E i \in 1..Len(ids[1]) : ids[1][i] = model[1]

C7_Witness ==
    /\ pc = "picked"
    /\ hint # <<>>
    /\ Len(ids[1]) = 2
    /\ HintPositions = {2}
    /\ ~Contains(ids[1][2], hint)
    /\ model = Some(ids[1][2])

(***************************************************************************)
(* _extract_model_ids on its own: the payload is drawn from the shapes the *)
(* function tells apart, with lists of at most MaxItems elements.          *)
(***************************************************************************)
IdValues ==
    {None, Some(JNull), Some(JStr(<<>>)), Some(JStr(<<"a">>)), Some(JNum("0")),
     Some(JNum("1"))}
NameValues == {None, Some(JNull), Some(JStr(<<"b">>))}
Elements == {NotObj} \cup {Obj(i, n) : i \in IdValues, n \in NameValues}
Lists == SeqsUpTo(Elements, MaxItems)

Payloads ==
    {PyNone, PyScalar, PyDict(None, None), PyDict(Some(OtherField), Some(OtherField))}
    \cup {PyList(l) : l \in Lists}
    \cup {PyDict(Some(ListField(l)), None) : l \in Lists}
    \cup {PyDict(None, Some(ListField(l))) : l \in Lists}
    \cup {PyDict(Some(OtherField), Some(ListField(l))) : l \in Lists}
    \cup {PyDict(Some(ListField(l)), Some(ListField(<<Obj(None, Some(JStr(<<"b">>)))>>))) :
             l \in Lists}

InitExtract ==
    /\ pc = "extract"
    /\ payload \in Payloads
    /\ ids = None
    /\ hint = <<>>
    /\ model = None
    /\ debug = FALSE
    /\ base_idx = 1
    /\ last_resp = HttpResponse(0, EmptyBody)
    /\ notes = <<>>
    /\ attempts = <<>>
    /\ res = None
    /\ ret = None
    /\ exc = None
    /\ stdout = <<>>
    /\ stderr = <<>>

ExtractStep ==
    /\ pc = "extract"
    /\ ids' = Some(_extract_model_ids(payload))
    /\ pc' = "extracted"
    /\ UNCHANGED <<hint, debug, base_idx, last_resp, payload, model, notes, attempts,
                   res, ret, exc, stdout, stderr>>

NextExtract == ExtractStep

SpecExtract == InitExtract /\ [][NextExtract]_vars

\* the shape _extract_model_ids is to use, and the list it is to read
ShapeOf(p) ==
    IF p.t = "obj" /\ p.data # None /\ p.data[1].list THEN "data"
    ELSE IF p.t = "obj" /\ p.models # None /\ p.models[1].list THEN "models"
    ELSE IF p.t = "list" THEN "list"
    ELSE "none"

ListOf(p) ==
    CASE ShapeOf(p) = "data" -> p.data[1].items
      [] ShapeOf(p) = "models" -> p.models[1].items
      [] ShapeOf(p) = "list" -> p.items
      [] OTHER -> <<>>

\* the identifier element x carries in a list of the given shape, if any: its
\* id, or in the `models` and bare-list shapes its name when it has no usable id
Carried(x, shape) ==
    IF ~x.dict THEN None
    ELSE IF shape = "data"
        THEN (IF x.id # None /\ x.id[1].t # "null" THEN x.id ELSE None)
    ELSE IF Truthy(Get(x.id)) THEN x.id
    ELSE IF x.name # None /\ x.name[1].t # "null" THEN x.name
    ELSE None

RECURSIVE CarriedIds(_, _)
CarriedIds(items, shape) ==
    IF items = <<>> THEN <<>>
    ELSE LET c == Carried(Head(items), shape)
         IN  (IF c = None THEN <<>> ELSE <<str(c[1])>>) \o CarriedIds(Tail(items), shape)

(***************************************************************************)
(* C8.  _extract_model_ids uses the first matching shape (data list,       *)
(* models list, bare list, otherwise nothing) and returns, in input order, *)
(* only the identifiers carried by the object elements of that list;       *)
(* elements that are not objects or carry no identifier give no entry.     *)
(***************************************************************************)
C8_ExtractOnlyCarriedIds ==
    pc = "extracted" => ids = Some(CarriedIds(ListOf(payload), ShapeOf(payload)))

(***************************************************************************)
(* The completion probes on their own: the response is drawn from every    *)
(* pairing of a status (200, other 2xx, 4xx, 5xx) with a body (empty,      *)
(* malformed, and JSON null, scalar, array, object), for every candidate   *)
(* base; one step applies _probe_chat, the other                           *)
(* _probe_legacy_completions, and records the verdict in the history and   *)
(* what _try_json made of the body in payload.                             *)
(***************************************************************************)
ProbeStatuses == {200, 201, 204, 404, 500}
ProbeBodies ==
    {EmptyBody, MalformedBody, JsonBody(PyNone), JsonBody(PyScalar),
     JsonBody(PyList(<<>>)), JsonBody(ErrorPayload)}

InitProbe ==
    /\ pc = "probe"
    /\ base_idx \in 1..Len(_candidate_api_bases)
    /\ last_resp \in {HttpResponse(st, b) : st \in ProbeStatuses, b \in ProbeBodies}
    /\ model = Some(<<"A", "b">>)
    /\ hint = <<>>
    /\ debug = FALSE
    /\ payload = PyNone
    /\ ids = None
    /\ notes = <<>>
    /\ attempts = <<>>
    /\ res = None
    /\ ret = None
    /\ exc = None
    /\ stdout = <<>>
    /\ stderr = <<>>

ProbeChatStep ==
    /\ pc = "probe"
    /\ LET base == _candidate_api_bases[base_idx]
           url == _join(base, <<"/", "chat", "/", "completions">>)
           r == _probe_chat(base, last_resp)
       IN  /\ notes' = Append(notes, r.note)
           /\ attempts' = Append(attempts,
                 Attempt("POST", url, base_idx, Returned(last_resp), TRUE, model, r.ok))
    /\ payload' = _try_json(last_resp)
    /\ pc' = "probed"
    /\ UNCHANGED <<hint, debug, base_idx, last_resp, ids, model, res, ret, exc,
                   stdout, stderr>>

ProbeLegacyStep ==
    /\ pc = "probe"
    /\ LET base == _candidate_api_bases[base_idx]
           url == _join(base, <<"/", "completions">>)
           r == _probe_legacy_completions(base, last_resp)
       IN  /\ notes' = Append(notes, r.note)
           /\ attempts' = Append(attempts,
                 Attempt("POST", url, base_idx, Returned(last_resp), TRUE, model, r.ok))
    /\ payload' = _try_json(last_resp)
    /\ pc' = "probed"
    /\ UNCHANGED <<hint, debug, base_idx, last_resp, ids, model, res, ret, exc,
                   stdout, stderr>>

NextProbe ==
    \/ ProbeChatStep
    \/ ProbeLegacyStep

SpecProbe == InitProbe /\ [][NextProbe]_vars

(***************************************************************************)
(* C11.  A completion probe succeeds exactly when the status is 200 and    *)
(* the body is a non-empty, decodable JSON value of any kind; and          *)
(* _try_json returns nothing only for an empty or malformed body.          *)
(***************************************************************************)
C11_ProbeSucceedsOnAnyJson ==
    pc = "probed" =>
        /\ attempts[1].ok <=> (last_resp.status = 200 /\ DecodableBody(last_resp))
        /\ payload = PyNone => last_resp.body.kind \in {"empty", "malformed"}

(***************************************************************************)
(* C12.  There are no retries: within one run every attempted URL+method   *)
(* combination is attempted once, except those under the duplicated        *)
(* candidate base /api/openai/v1, which are attempted at most twice; and   *)
(* a run issues at most three requests per candidate, 15 in all.           *)
(***************************************************************************)
DuplicatedBase == FixedBases[3]

UnderDuplicatedBase(url) ==
    /\ Len(url) > Len(DuplicatedBase)
    /\ SubSeq(url, 1, Len(DuplicatedBase)) = DuplicatedBase

TimesAttempted(method, url) ==
    Cardinality({k \in 1..NAttempts :
                    attempts[k].method = method /\ attempts[k].url = url})

C12_NoRetries ==
    /\ \A k \in 1..NAttempts :
          LET a == attempts[k]
          IN  TimesAttempted(a.method, a.url)
                  <= (IF UnderDuplicatedBase(a.url) THEN 2 ELSE 1)
    /\ \A j \in 1..Len(FixedBases) :
          Cardinality({k \in 1..NAttempts : attempts[k].idx = j}) <= 3
    /\ NAttempts <= Len(FixedBases) * 3

\* a run that issued all fifteen requests, those of the duplicated base twice
C12_Witness ==
    /\ NAttempts = Len(FixedBases) * 3
    /\ \E k \in 1..NAttempts :
          /\ IsLegacy(attempts[k])
          /\ UnderDuplicatedBase(attempts[k].url)
          /\ TimesAttempted("POST", attempts[k].url) = 2
    /\ \E k \in 1..NAttempts :
          /\ ~UnderDuplicatedBase(attempts[k].url)
          /\ TimesAttempted(attempts[k].method, attempts[k].url) = 1

====
